---- MODULE Spec2Model ----
(***************************************************************************)
(* The 9-qubit Shor code script Atharva_Shor_Code.py: the driver builds a  *)
(* circuit (H on qubit 0, encode, add_error, syndrome_eigenvalue_          *)
(* measurement), the simulator runs it gate by gate, and the decoder       *)
(* interpret_syndrome_eigenvalues classifies the measured syndrome.        *)
(*                                                                         *)
(* The register state is a state vector kept sparsely: a function from the *)
(* basis states with non-zero amplitude (a basis state is the set of       *)
(* qubits that read 1) to an integer amplitude.  The vector is kept up to  *)
(* a positive scale (every gate of the circuit is H, X, Z, CX or CZ, so    *)
(* amplitudes are integers times a power of 1/sqrt(2)); the common factor  *)
(* 2 is divided out after each Hadamard.                                   *)
(***************************************************************************)
EXTENDS Integers, Sequences, FiniteSets, TLC

VARIABLES pc, error, circuit, ip, psi, creg, most_likely, syndrome_bits,
          detected, raised

vars == <<pc, error, circuit, ip, psi, creg, most_likely, syndrome_bits,
          detected, raised>>

\* ------------------------------------------------------------------ sizes

\* self.n_qubits: the data qubits 0..8
n_qubits == 9
\* self.n_ancilla: the one ancilla, qubit 9
n_ancilla == 1
\* ClassicalRegister(8, 'syndrome')
n_syndrome == 8
\* the ancilla's index in QuantumRegister(10, 'q')
ancilla == 9
\* Python's None, the qubit of ('I', None)
None == -1

\* Malformed decoder inputs: values up to MaxBitValue, up to MaxExtraLen
\* elements more than eight.
MaxBitValue == 2
MaxExtraLen == 1

DataQubits == 0 .. (n_qubits - 1)
Clbits == 0 .. (n_syndrome - 1)

\* ------------------------------------------------------------------ gates

H(q) == [op |-> "h", a |-> q, b |-> q]
X(q) == [op |-> "x", a |-> q, b |-> q]
Z(q) == [op |-> "z", a |-> q, b |-> q]
CX(c, t) == [op |-> "cx", a |-> c, b |-> t]
CZ(c, t) == [op |-> "cz", a |-> c, b |-> t]
Measure(q, c) == [op |-> "measure", a |-> q, b |-> c]
Reset(q) == [op |-> "reset", a |-> q, b |-> q]

\* encode: the outer phase-flip code, then the three inner bit-flip codes
encode(data_qubit) ==
    << CX(data_qubit, 3), CX(data_qubit, 6),
       H(0), H(3), H(6),
       CX(0, 1), CX(0, 2), CX(3, 4), CX(3, 5), CX(6, 7), CX(6, 8) >>

\* add_error: an X or a Z gate, and no gate for any other error_type
add_error(error_type, qubit) ==
    IF error_type = "X" THEN << X(qubit) >>
    ELSE IF error_type = "Z" THEN << Z(qubit) >>
    ELSE << >>

\* a stabilizer pass that forgets to prepare the ancilla in |+> (a faulty variant)
ZZStabilizerNoPrep(q1, q2, c) ==
    << CZ(q1, ancilla), CZ(q2, ancilla), H(ancilla),
       Measure(ancilla, c), Reset(ancilla) >>

\* one pass of a bit-flip stabilizer loop body: Z_q1 Z_q2 into clbit c
ZZStabilizer(q1, q2, c) ==
    << H(ancilla), CZ(q1, ancilla), CZ(q2, ancilla), H(ancilla),
       Measure(ancilla, c), Reset(ancilla) >>

\* for i, (q1, q2) in enumerate([(b, b+1), (b+1, b+2)]): clbits off, off+1
BitFlipBlock(b, off) ==
    ZZStabilizer(b, b + 1, off) \o ZZStabilizer(b + 1, b + 2, off + 1)

\* for block_start in [0, 3, 6]: cx(b, b+1); cx(b, b+2)
DecodeBitFlip ==
    << CX(0, 1), CX(0, 2), CX(3, 4), CX(3, 5), CX(6, 7), CX(6, 8) >>

\* for q in [0, 3, 6]: h(q)
ToXBasis == << H(0), H(3), H(6) >>

\* a phase stabilizer that spans one block instead of two (a faulty variant)
PhaseStabilizerOneBlock(first, c) ==
    [i \in 1 .. 3 |-> CX(first + i - 1, ancilla)]
        \o << Measure(ancilla, c), Reset(ancilla) >>

\* for q in first..first+5: cx(q, 9); measure(9, c); reset(9)
PhaseStabilizer(first, c) ==
    [i \in 1 .. 6 |-> CX(first + i - 1, ancilla)]
        \o << Measure(ancilla, c), Reset(ancilla) >>

\* faulty variants of the measurement recipe
SyndromeSwappedClbits ==
    BitFlipBlock(0, 0) \o BitFlipBlock(3, 2) \o BitFlipBlock(6, 4)
        \o DecodeBitFlip \o ToXBasis
        \o PhaseStabilizer(0, 7) \o PhaseStabilizer(3, 6)

SyndromeRestoring ==
    BitFlipBlock(0, 0) \o BitFlipBlock(3, 2) \o BitFlipBlock(6, 4)
        \o DecodeBitFlip \o ToXBasis
        \o PhaseStabilizer(0, 6) \o PhaseStabilizer(3, 7)
        \o ToXBasis \o DecodeBitFlip

SyndromeBlockShift ==
    BitFlipBlock(0, 2) \o BitFlipBlock(3, 4) \o BitFlipBlock(6, 0)
        \o DecodeBitFlip \o ToXBasis
        \o PhaseStabilizer(0, 6) \o PhaseStabilizer(3, 7)

SyndromeNoDecode ==
    BitFlipBlock(0, 0) \o BitFlipBlock(3, 2) \o BitFlipBlock(6, 4)
        \o ToXBasis
        \o PhaseStabilizer(0, 6) \o PhaseStabilizer(3, 7)

\* syndrome_eigenvalue_measurement: the whole recipe
syndrome_eigenvalue_measurement ==
    BitFlipBlock(0, 0) \o BitFlipBlock(3, 2) \o BitFlipBlock(6, 4)
        \o DecodeBitFlip \o ToXBasis
        \o PhaseStabilizer(0, 6) \o PhaseStabilizer(3, 7)

\* ----------------------------------------------------------- state vector

\* |0000000000>
ZeroState == [s \in {{}} |-> 1]

Amp(p, s) == IF s \in DOMAIN p THEN p[s] ELSE 0

Flip(s, q) == IF q \in s THEN s \ {q} ELSE s \cup {q}

\* the vector up to scale: divide the common factors 2 out
RECURSIVE Scale(_)
Scale(p) ==
    IF \A s \in DOMAIN p : p[s] % 2 = 0
    THEN Scale([s \in DOMAIN p |-> p[s] \div 2])
    ELSE p

\* circuit.h(q): |0> -> |0> + |1>, |1> -> |0> - |1>
ApplyH(p, q) ==
    LET cand == DOMAIN p \cup {Flip(s, q) : s \in DOMAIN p}
        amp(s) == IF q \in s
                  THEN Amp(p, s \ {q}) - Amp(p, s)
                  ELSE Amp(p, s) + Amp(p, s \cup {q})
        supp == {s \in cand : amp(s) # 0}
    IN  Scale([s \in supp |-> amp(s)])

\* circuit.x(q)
ApplyX(p, q) ==
    [s \in {Flip(t, q) : t \in DOMAIN p} |-> p[Flip(s, q)]]

\* circuit.z(q)
ApplyZ(p, q) ==
    [s \in DOMAIN p |-> IF q \in s THEN 0 - p[s] ELSE p[s]]

\* circuit.cx(c, t)
ApplyCX(p, c, t) ==
    LET move(s) == IF c \in s THEN Flip(s, t) ELSE s
    IN  [s \in {move(u) : u \in DOMAIN p} |-> p[move(s)]]

\* circuit.cz(c, t)
ApplyCZ(p, c, t) ==
    [s \in DOMAIN p |-> IF c \in s /\ t \in s THEN 0 - p[s] ELSE p[s]]

\* the outcomes of measuring q that have non-zero probability
Outcomes(p, q) == {IF q \in s THEN 1 ELSE 0 : s \in DOMAIN p}

\* the vector after qubit q was read as m
Project(p, q, m) ==
    LET keep == {s \in DOMAIN p : (q \in s) <=> (m = 1)}
    IN  Scale([s \in keep |-> p[s]])

\* circuit.reset(q) after q was read as m: q is set to |0>
ApplyReset(p, q, m) ==
    LET kept == Project(p, q, m)
    IN  [s \in {t \ {q} : t \in DOMAIN kept} |->
            IF m = 1 THEN kept[s \cup {q}] ELSE kept[s]]

\* ------------------------------------------------------------------ decoder

Return(error_type, error_qubit) ==
    [ret |-> << error_type, error_qubit >>, exc |-> "none"]

Raise(kind) == [ret |-> << >>, exc |-> kind]

\* eigenvalues = [1 if bit == 0 else -1 for bit in syndrome_bits]
Eigenvalues(bits) ==
    [i \in 1 .. Len(bits) |-> IF bits[i] = 0 THEN 1 ELSE -1]

\* a phase-flip table with blocks 0 and 1 exchanged (a faulty variant)
PhaseFlipDetectSwapped(e) ==
    IF Len(e) < 8 THEN Raise("IndexError")
    ELSE LET s_phase1 == e[7]
             s_phase2 == e[8]
         IN  IF s_phase1 = -1 /\ s_phase2 = 1 THEN Return("Z", 3)
             ELSE IF s_phase1 = -1 /\ s_phase2 = -1 THEN Return("Z", 0)
             ELSE IF s_phase1 = 1 /\ s_phase2 = -1 THEN Return("Z", 6)
             ELSE Return("I", None)

\* s_phase1, s_phase2 = eigenvalues[6], eigenvalues[7] and the three tests
PhaseFlipDetect(e) ==
    IF Len(e) < 8 THEN Raise("IndexError")
    ELSE LET s_phase1 == e[7]
             s_phase2 == e[8]
         IN  IF s_phase1 = -1 /\ s_phase2 = 1 THEN Return("Z", 0)
             ELSE IF s_phase1 = -1 /\ s_phase2 = -1 THEN Return("Z", 3)
             ELSE IF s_phase1 = 1 /\ s_phase2 = -1 THEN Return("Z", 6)
             ELSE Return("I", None)

\* for block in range(3): ... ; then the phase-flip tests
RECURSIVE BitFlipDetect(_, _)
BitFlipDetect(e, block) ==
    IF block = 3 THEN PhaseFlipDetect(e)
    ELSE IF Len(e) < block * 2 + 2 THEN Raise("IndexError")
    ELSE LET s1 == e[block * 2 + 1]
             s2 == e[block * 2 + 2]
         IN  IF s1 = -1 /\ s2 = 1 THEN Return("X", block * 3)
             ELSE IF s1 = -1 /\ s2 = -1 THEN Return("X", block * 3 + 1)
             ELSE IF s1 = 1 /\ s2 = -1 THEN Return("X", block * 3 + 2)
             ELSE BitFlipDetect(e, block + 1)

\* a decoder that tests the phase-flip pair before the bit-flip pairs (a faulty variant)
InterpretPhaseFirst(bits) ==
    LET e == Eigenvalues(bits)
        z == PhaseFlipDetect(e)
    IN  IF z.exc = "none" /\ z.ret[1] = "Z" THEN z ELSE BitFlipDetect(e, 0)

\* interpret_syndrome_eigenvalues(syndrome_bits)
interpret_syndrome_eigenvalues(bits) == BitFlipDetect(Eigenvalues(bits), 0)

\* ------------------------------------------------------------------ driver

\* result.get_counts(): the key prints clbit 7 first and clbit 0 last
CountsKey(c) == [i \in 1 .. n_syndrome |-> c[n_syndrome - i]]

\* a driver that forgets the reversal (a faulty variant)
SyndromeBitsUnreversed(key) == key

\* [int(bit) for bit in most_likely[::-1]]
SyndromeBits(key) == [i \in 1 .. Len(key) |-> key[Len(key) - i + 1]]

ErrorTypes == {"X", "Z", "I"}

NoError == [type |-> "none", qubit |-> None]

Init ==
    /\ pc = "new"
    /\ error = NoError
    /\ circuit = << >>
    /\ ip = 0
    /\ psi = ZeroState
    /\ creg = [c \in Clbits |-> 0]
    /\ most_likely = << >>
    /\ syndrome_bits = << >>
    /\ detected = << >>
    /\ raised = "none"

\* qc.h(0): the input state handed to encode
PrepareInput ==
    /\ pc = "new"
    /\ circuit' = circuit \o << H(0) >>
    /\ pc' = "prepared"
    /\ UNCHANGED << error, ip, psi, creg, most_likely, syndrome_bits,
                    detected, raised >>

\* shor.encode(qc)
Encode ==
    /\ pc = "prepared"
    /\ circuit' = circuit \o encode(0)
    /\ pc' = "encoded"
    /\ UNCHANGED << error, ip, psi, creg, most_likely, syndrome_bits,
                    detected, raised >>

\* shor.add_error(qc, error_type, qubit)
AddError ==
    /\ pc = "encoded"
    /\ \E error_type \in ErrorTypes, qubit \in DataQubits :
          /\ error' = [type |-> error_type, qubit |-> qubit]
          /\ circuit' = circuit \o add_error(error_type, qubit)
    /\ pc' = "errored"
    /\ UNCHANGED << ip, psi, creg, most_likely, syndrome_bits, detected,
                    raised >>

\* a trial that goes from encode to the measurement without add_error
SkipError ==
    /\ pc = "encoded"
    /\ pc' = "errored"
    /\ UNCHANGED << error, circuit, ip, psi, creg, most_likely,
                    syndrome_bits, detected, raised >>

\* shor.syndrome_eigenvalue_measurement(qc)
SyndromeMeasurement ==
    /\ pc = "errored"
    /\ circuit' = circuit \o syndrome_eigenvalue_measurement
    /\ pc' = "built"
    /\ UNCHANGED << error, ip, psi, creg, most_likely, syndrome_bits,
                    detected, raised >>

\* simulator.run(transpiled): the register starts in |0...0>, clbits at 0
Run ==
    /\ pc = "built"
    /\ pc' = "running"
    /\ ip' = 1
    /\ psi' = ZeroState
    /\ creg' = [c \in Clbits |-> 0]
    /\ UNCHANGED << error, circuit, most_likely, syndrome_bits, detected,
                    raised >>

AtGate(op) == pc = "running" /\ ip <= Len(circuit) /\ circuit[ip].op = op

Advance ==
    /\ ip' = ip + 1
    /\ UNCHANGED << pc, error, circuit, most_likely, syndrome_bits,
                    detected, raised >>

StepH ==
    /\ AtGate("h")
    /\ psi' = ApplyH(psi, circuit[ip].a)
    /\ UNCHANGED creg
    /\ Advance

StepX ==
    /\ AtGate("x")
    /\ psi' = ApplyX(psi, circuit[ip].a)
    /\ UNCHANGED creg
    /\ Advance

StepZ ==
    /\ AtGate("z")
    /\ psi' = ApplyZ(psi, circuit[ip].a)
    /\ UNCHANGED creg
    /\ Advance

StepCX ==
    /\ AtGate("cx")
    /\ psi' = ApplyCX(psi, circuit[ip].a, circuit[ip].b)
    /\ UNCHANGED creg
    /\ Advance

StepCZ ==
    /\ AtGate("cz")
    /\ psi' = ApplyCZ(psi, circuit[ip].a, circuit[ip].b)
    /\ UNCHANGED creg
    /\ Advance

\* circuit.measure(q, c): any outcome of non-zero probability
StepMeasure ==
    /\ AtGate("measure")
    /\ \E m \in Outcomes(psi, circuit[ip].a) :
          /\ psi' = Project(psi, circuit[ip].a, m)
          /\ creg' = [creg EXCEPT ![circuit[ip].b] = m]
    /\ Advance

\* circuit.reset(q)
StepReset ==
    /\ AtGate("reset")
    /\ \E m \in Outcomes(psi, circuit[ip].a) :
          psi' = ApplyReset(psi, circuit[ip].a, m)
    /\ UNCHANGED creg
    /\ Advance

\* counts = result.get_counts(); most_likely; syndrome_bits.  A run is one
\* shot; max(counts, key=counts.get) picks among the outcomes of non-zero
\* probability, each of which some run produces.
ExtractSyndrome ==
    /\ pc = "running"
    /\ ip > Len(circuit)
    /\ most_likely' = CountsKey(creg)
    /\ syndrome_bits' = SyndromeBits(CountsKey(creg))
    /\ pc' = "measured"
    /\ UNCHANGED << error, circuit, ip, psi, creg, detected, raised >>

\* shor.interpret_syndrome_eigenvalues(syndrome_bits)
Interpret ==
    /\ pc = "measured"
    /\ LET r == interpret_syndrome_eigenvalues(syndrome_bits)
       IN  /\ detected' = r.ret
           /\ raised' = r.exc
    /\ pc' = "decoded"
    /\ UNCHANGED << error, circuit, ip, psi, creg, most_likely,
                    syndrome_bits >>

Next ==
    \/ PrepareInput
    \/ Encode
    \/ AddError
    \/ SkipError
    \/ SyndromeMeasurement
    \/ Run
    \/ StepH
    \/ StepX
    \/ StepZ
    \/ StepCX
    \/ StepCZ
    \/ StepMeasure
    \/ StepReset
    \/ ExtractSyndrome
    \/ Interpret

Spec == Init /\ [][Next]_vars

\* ------------------------------------------- the decoder on its own inputs

Vectors(n) == [1 .. n -> {0, 1}]

\* one element of a well-formed vector replaced by a value outside {0,1}
BadValueInputs ==
    {[v EXCEPT ![i] = x] : v \in Vectors(n_syndrome), i \in 1 .. n_syndrome,
                           x \in 2 .. MaxBitValue}

\* vectors that are too short or too long
BadLengthInputs ==
    UNION {Vectors(n) : n \in (0 .. (n_syndrome + MaxExtraLen)) \ {n_syndrome}}

DecoderInputs == Vectors(n_syndrome) \cup BadValueInputs \cup BadLengthInputs

\* a caller that hands the decoder a vector of its own
DecodeInit ==
    /\ pc = "measured"
    /\ error = NoError
    /\ circuit = << >>
    /\ ip = 0
    /\ psi = ZeroState
    /\ creg = [c \in Clbits |-> 0]
    /\ most_likely = << >>
    /\ syndrome_bits \in DecoderInputs
    /\ detected = << >>
    /\ raised = "none"

DecodeNext == Interpret

DecodeSpec == DecodeInit /\ [][DecodeNext]_vars

\* ------------------------------------------------------------------ claims

Done == pc = "decoded"

Trial(error_type, qubit) ==
    Done /\ error.type = error_type /\ error.qubit = qubit

\* syndrome bits (2k, 2k+1) by classical-bit position
Pair(bits, k) == << bits[2 * k + 1], bits[2 * k + 2] >>

\* the pair that names position 0, 1, 2 of a block (or block 0, 1, 2)
Pattern(i) == IF i = 0 THEN << 1, 0 >> ELSE IF i = 1 THEN << 1, 1 >> ELSE << 0, 1 >>

\* the state the register holds after qc.h(0) and encode
RECURSIVE RunUnitary(_, _)
RunUnitary(gates, p) ==
    IF gates = << >> THEN p
    ELSE LET g == Head(gates)
             q == IF g.op = "h" THEN ApplyH(p, g.a)
                  ELSE IF g.op = "cx" THEN ApplyCX(p, g.a, g.b)
                  ELSE p
         IN  RunUnitary(Tail(gates), q)

EncodedState == RunUnitary(<< H(0) >> \o encode(0), ZeroState)

\* C1: a single X on data qubit q gives the pair of block q // 3 the pattern
\* of q's place in the block, and the decoder returns ('X', q).
C1_BitFlipRecovered ==
    (Done /\ error.type = "X") =>
        /\ Len(syndrome_bits) = 8
        /\ Pair(syndrome_bits, error.qubit \div 3) = Pattern(error.qubit % 3)
        /\ raised = "none"
        /\ detected = << "X", error.qubit >>

C1_Witness ==
    /\ Trial("X", 7)
    /\ Pair(syndrome_bits, 2) = << 1, 1 >>
    /\ detected = << "X", 7 >>

\* C2: a single Z on any qubit p of block k gives syndrome bits (6,7) the
\* pattern of block k, and the decoder returns ('Z', 3k).
C2_PhaseFlipRecovered ==
    (Done /\ error.type = "Z") =>
        /\ Len(syndrome_bits) = 8
        /\ Pair(syndrome_bits, 3) = Pattern(error.qubit \div 3)
        /\ raised = "none"
        /\ detected = << "Z", 3 * (error.qubit \div 3) >>

C2_Witness ==
    /\ Trial("Z", 8)
    /\ Pair(syndrome_bits, 3) = << 0, 1 >>
    /\ detected = << "Z", 6 >>

\* the reference of C3, stated on the bits
Flagged(bits) == {k \in 0 .. 2 : Pair(bits, k) # << 0, 0 >>}

Lowest(S) == CHOOSE k \in S : \A j \in S : k <= j

Place(pair) == CHOOSE i \in 0 .. 2 : Pattern(i) = pair

Reference(bits) ==
    IF Flagged(bits) # {}
    THEN LET k == Lowest(Flagged(bits))
         IN  << "X", 3 * k + Place(Pair(bits, k)) >>
    ELSE IF Pair(bits, 3) = << 0, 0 >> THEN << "I", None >>
    ELSE << "Z", 3 * Place(Pair(bits, 3)) >>

\* C3: on each of the 256 vectors of eight bits the decoder returns, without
\* raising, the result of the lowest flagged bit-flip block, else that of the
\* phase-flip pair, else ('I', None).
C3_DecoderIsReference ==
    (Done /\ syndrome_bits \in Vectors(8)) =>
        /\ raised = "none"
        /\ detected = Reference(syndrome_bits)

C3_Witness ==
    /\ Done
    /\ syndrome_bits = << 0, 0, 0, 1, 1, 1, 1, 0 >>
    /\ detected = << "X", 5 >>

\* C4 as stated: a single Z on qubit 4 gives syndrome bits (6,7) = (1,0) and
\* the decoder returns ('Z', 3).
C4_Original ==
    Trial("Z", 4) =>
        /\ Pair(syndrome_bits, 3) = << 1, 0 >>
        /\ detected = << "Z", 3 >>

\* C4 as amended: a single Z on qubit 4 gives syndrome bits (6,7) = (1,1),
\* eigenvalues (-1,-1), and the decoder returns ('Z', 3).
C4_Amended ==
    Trial("Z", 4) =>
        /\ Pair(syndrome_bits, 3) = << 1, 1 >>
        /\ Eigenvalues(syndrome_bits)[7] = -1
        /\ Eigenvalues(syndrome_bits)[8] = -1
        /\ detected = << "Z", 3 >>

C4_Witness ==
    /\ Trial("Z", 4)
    /\ syndrome_bits = << 0, 0, 0, 0, 0, 0, 1, 1 >>

\* C5: a single X on qubit 0 gives the syndrome [1,0,0,0,0,0,0,0] and the
\* decoder returns ('X', 0).
C5_FirstTrial ==
    Trial("X", 0) =>
        /\ syndrome_bits = << 1, 0, 0, 0, 0, 0, 0, 0 >>
        /\ detected = << "X", 0 >>

C5_Witness ==
    /\ Trial("X", 0)
    /\ most_likely = << 0, 0, 0, 0, 0, 0, 0, 1 >>
    /\ creg[0] = 1

\* C6: a syndrome whose length is not 8 or that holds a value outside {0,1}
\* makes the decoder fail with InvalidSyndrome and return no classification.
Malformed(bits) ==
    Len(bits) # 8 \/ \E i \in 1 .. Len(bits) : bits[i] \notin {0, 1}

C6_MalformedRejected ==
    (Done /\ Malformed(syndrome_bits)) =>
        /\ raised = "InvalidSyndrome"
        /\ detected = << >>

\* C7: at each measure(9, ...) of a trial with no error, a single X or a
\* single Z, qubit 9 reads the same in every term of the state, so the
\* measurement has one outcome and removes no term; the state stays a
\* superposition of more than one term before and after it.
C7_AncillaDefinite ==
    (AtGate("measure") \/ AtGate("reset")) =>
        /\ circuit[ip].a = ancilla
        /\ Cardinality(Outcomes(psi, ancilla)) = 1
        /\ \A m \in Outcomes(psi, ancilla) : Project(psi, ancilla, m) = psi
        /\ Cardinality(DOMAIN psi) >= 2

C7_Witness ==
    /\ AtGate("reset")
    /\ circuit[ip - 1] = Measure(ancilla, 7)
    /\ error.type = "X"
    /\ error.qubit = 5
    /\ creg[7] = 1
    /\ Cardinality(DOMAIN psi) >= 2

\* C8: with no error gate (add_error skipped, or called with a type other
\* than 'X' and 'Z') the syndrome is all zero and the decoder returns
\* ('I', None).
C8_NoErrorNoSyndrome ==
    (Done /\ error.type \notin {"X", "Z"}) =>
        /\ syndrome_bits = << 0, 0, 0, 0, 0, 0, 0, 0 >>
        /\ detected = << "I", None >>

C8_Witness ==
    /\ Trial("I", 4)
    /\ Len(circuit) = Len(encode(0)) + 1 + Len(syndrome_eigenvalue_measurement)
    /\ detected = << "I", None >>

\* C9: for a single X on q, bits (6,7) are (0,0) exactly when q is 0, 3 or
\* 6 and otherwise read the pattern of block q // 3; the bit-flip pairs of
\* the other two blocks are (0,0); and the decoder returns ('X', q).
C9_BitFlipSetsPhaseBits ==
    (Done /\ error.type = "X") =>
        /\ (Pair(syndrome_bits, 3) = << 0, 0 >>) <=> (error.qubit \in {0, 3, 6})
        /\ error.qubit \notin {0, 3, 6} =>
               Pair(syndrome_bits, 3) = Pattern(error.qubit \div 3)
        /\ \A k \in 0 .. 2 :
               k # error.qubit \div 3 => Pair(syndrome_bits, k) = << 0, 0 >>
        /\ detected = << "X", error.qubit >>
        /\ error.qubit \notin {0, 3, 6} =>
               InterpretPhaseFirst(syndrome_bits).ret[1] = "Z"

C9_Witness ==
    /\ Trial("X", 4)
    /\ syndrome_bits = << 0, 0, 1, 1, 0, 0, 1, 1 >>
    /\ detected = << "X", 4 >>

\* C10: after the measurement of a trial with no error the data qubits hold
\* |000000000> + |100100100> (equal amplitudes, qubits 1,2,4,5,7,8 and the
\* ancilla at 0), which is not the state they held after encode.
C10_DataRegisterNotRestored ==
    (pc \in {"measured", "decoded"} /\ error.type \notin {"X", "Z"}) =>
        /\ DOMAIN psi = {{}, {0, 3, 6}}
        /\ psi[{}] = psi[{0, 3, 6}]
        /\ psi # EncodedState
        /\ Cardinality(DOMAIN EncodedState) = 4

C10_Witness ==
    /\ pc = "measured"
    /\ error = NoError
    /\ DOMAIN psi = {{}, {0, 3, 6}}

====
